---------------------------- MODULE Spec2Model ----------------------------
(***************************************************************************)
(* Model of dgraph/cmd/debuginfo/debugging.go: saveProfiles, saveMetrics,  *)
(* saveDebug, fetchURL and statusCodeError.                                *)
(*                                                                         *)
(* Strings are TLA+ strings (TLC evaluates Len, \o, Head, Tail and SubSeq  *)
(* on them), so URLs, paths, bodies and error messages are built and       *)
(* compared character by character, as the Go code builds them.            *)
(*                                                                         *)
(* A time.Duration is an int64 count of nanoseconds.  TLC's integers are   *)
(* 32 bits wide, so an int64 is kept as three base-10^9 limbs <<a, b, c>>  *)
(* holding the unsigned 64-bit pattern a*10^18 + b*10^9 + c (two's         *)
(* complement: patterns from 2^63 on are the negative values).             *)
(***************************************************************************)
EXTENDS Integers, Sequences, FiniteSets, TLC

VARIABLES
    pc,          \* "idle" | "fetch" | "create" | "copy" | "done": position of the batch call
    kind,        \* "profiles" (saveProfiles) | "metrics" (saveMetrics) | "" before the call
    addr,        \* argument addr
    pathPrefix,  \* argument pathPrefix
    duration,    \* argument duration (int64 nanoseconds, as limbs)
    names,       \* argument profiles / metrics, in the given order
    first,       \* result of the first url.Parse(addr)
    retried,     \* whether url.Parse("http://" + addr) was called
    u,           \* the URL the batch works with (after the optional retry)
    i,           \* index of the endpoint the range loop is at (1-based)
    reqs,        \* every GET issued so far: [url, timeout], in order
    resp,        \* the response of the endpoint in flight
    log,         \* one record per finished endpoint, in order
    files,       \* the file system: path -> content, for the paths that exist
    oldFiles,    \* the file system as it was before the call
    bodyOpen,    \* number of response bodies not yet closed
    outOpen      \* number of output file handles not yet closed

vars == <<pc, kind, addr, pathPrefix, duration, names, first, retried, u, i,
          reqs, resp, log, files, oldFiles, bodyOpen, outOpen>>

-----------------------------------------------------------------------------
(* Bounds of the model. *)

\* Longest name list passed to a batch call.
MaxNames == 2

\* Longest address generated over AddrAlphabet for the normalization check.
MaxAddrLen == 3

-----------------------------------------------------------------------------
(* The package's name lists. *)

pprofProfileTypes ==
    <<"goroutine", "heap", "threadcreate", "block", "mutex", "profile", "trace">>

metricTypes == <<"jemalloc", "state", "health">>

-----------------------------------------------------------------------------
(* Package strings, as far as the code uses it. *)

Char(s, k) == SubSeq(s, k, k)

HasPrefix(s, p) == Len(s) >= Len(p) /\ SubSeq(s, 1, Len(p)) = p

\* 1-based index of the first occurrence of the one-character string c in
\* s, 0 when there is none (Go: 0-based, -1).
Index(s, c) ==
    LET hits == {k \in 1..Len(s) : Char(s, k) = c}
    IN  IF hits = {} THEN 0 ELSE CHOOSE k \in hits : \A m \in hits : k <= m

LastIndex(s, c) ==
    LET hits == {k \in 1..Len(s) : Char(s, k) = c}
    IN  IF hits = {} THEN 0 ELSE CHOOSE k \in hits : \A m \in hits : k >= m

Contains(s, sub) ==
    \E k \in 1..(Len(s) - Len(sub) + 1) : SubSeq(s, k, k + Len(sub) - 1) = sub

-----------------------------------------------------------------------------
(* int64 arithmetic on time.Duration. *)

\* One limb: 10^9.  It is also time.Second, the number of nanoseconds in a
\* second, so limb b counts whole seconds.
Second == 1000000000

\* 2^64 and 2^63 as limbs.
Two64 == <<18, 446744073, 709551616>>
Two63 == <<9, 223372036, 854775808>>

\* x < y on unsigned limb triples.
LessU(x, y) ==
    \/ x[1] < y[1]
    \/ x[1] = y[1] /\ x[2] < y[2]
    \/ x[1] = y[1] /\ x[2] = y[2] /\ x[3] < y[3]

\* x - y on limb triples, for x >= y.
SubU(x, y) ==
    LET b3 == IF x[3] < y[3] THEN 1 ELSE 0
        c  == x[3] + b3 * Second - y[3]
        b2 == IF x[2] - b3 < y[2] THEN 1 ELSE 0
        b  == x[2] - b3 + b2 * Second - y[2]
    IN  <<x[1] - b2 - y[1], b, c>>

\* int64 addition: the sum modulo 2^64.
Add64(x, y) ==
    LET c  == x[3] + y[3]
        b  == x[2] + y[2] + (c \div Second)
        a  == x[1] + y[1] + (b \div Second)
        s  == <<a, b % Second, c % Second>>
    IN  IF LessU(s, Two64) THEN s ELSE SubU(s, Two64)

\* int64 division by 2 of a non-negative value (Go truncates).
Half64(x) ==
    LET b == (x[1] % 2) * Second + x[2]
        c == (b % 2) * Second + x[3]
    IN  <<x[1] \div 2, b \div 2, c \div 2>>

\* The sign of an int64.
Neg64(x) == ~LessU(x, Two63)

\* x < y on int64 values.
Less64(x, y) ==
    IF Neg64(x) = Neg64(y) THEN LessU(x, y) ELSE Neg64(x)

\* n seconds and m nanoseconds as a Duration, for 0 <= n < 10^9.
Dur(n, m) == <<0, n, m>>

\* Limb b zero-padded to nine digits.
Pad9(n) ==
    LET s == ToString(n)
    IN  SubSeq("000000000", 1, 9 - Len(s)) \o s

\* The binary exponent of a whole number of seconds a * 10^9 + b that is at
\* least 2^24: the e with 2^e <= seconds < 2^(e+1).
SecondsExponent(a, b) ==
    IF a = 0 THEN CHOOSE e \in 24..29 : 2^e <= b /\ b < 2^(e + 1)
    ELSE IF a = 1 /\ b < 73741824 THEN 29
    ELSE IF a < 2 \/ (a = 2 /\ b < 147483648) THEN 30
    ELSE IF a < 4 \/ (a = 4 /\ b < 294967296) THEN 31
    ELSE IF a < 8 \/ (a = 8 /\ b < 589934592) THEN 32
    ELSE 33

\* int(duration.Seconds()) of a non-negative duration, as limbs <<a, b>>, with
\* a 64-bit int.  Seconds() is float64(d / Second) + float64(d % Second) / 1e9
\* in IEEE double arithmetic and int() truncates.  Below 2^24 seconds the sum
\* stays under the next whole number; from 2^24 on its last bit is worth
\* 2^(e-52), and the sum rounds to the next whole number when the fraction
\* is within 2^(e-53) s = 5^9 / 2^(44-e) ns of it.
Seconds(d) ==
    LET up == /\ d[1] > 0 \/ d[2] >= 2^24
              /\ Second - d[3] <= (5^9) \div (2^(44 - SecondsExponent(d[1], d[2])))
        b  == d[2] + (IF up THEN 1 ELSE 0)
    IN  <<d[1] + (b \div Second), b % Second>>

\* fmt's %d of int(duration.Seconds()).
SecondsString(d) ==
    LET s == Seconds(d)
    IN  IF s[1] = 0 THEN ToString(s[2]) ELSE ToString(s[1]) \o Pad9(s[2])

-----------------------------------------------------------------------------
(* Package net/url, as far as url.Parse and URL.String act on the          *)
(* addresses of this model: strings over letters, digits and . - + : / ?   *)
(* (no control byte, and none of # @ % [ ] or a blank, so there is no      *)
(* fragment, no userinfo, no escaping and no bracketed IPv6 host).         *)

Letters == "abcdefghijklmnopqrstuvwxyz"
UpperLetters == "ABCDEFGHIJKLMNOPQRSTUVWXYZ"
Digits == "0123456789"

IsLetter(c) == Index(Letters, c) > 0 \/ Index(UpperLetters, c) > 0
IsDigit(c) == Index(Digits, c) > 0

\* strings.ToLower.
RECURSIVE ToLower(_)
ToLower(s) ==
    IF s = "" THEN ""
    ELSE LET c == Head(s)
             k == Index(UpperLetters, c)
         IN  (IF k > 0 THEN Char(Letters, k) ELSE c) \o ToLower(Tail(s))

\* The URL fields the code reads.  err stands for a non-nil error (the
\* *URL is then nil, here an empty URL that nothing reads).
NilURL ==
    [err |-> TRUE, Scheme |-> "", Opaque |-> "", Host |-> "", Path |-> "",
     RawQuery |-> "", ForceQuery |-> FALSE]

MkURL(scheme, opaque, host, path, query, force) ==
    [err |-> FALSE, Scheme |-> scheme, Opaque |-> opaque, Host |-> host,
     Path |-> path, RawQuery |-> query, ForceQuery |-> force]

\* url.getScheme: the scan stops at the first byte that is neither a
\* letter nor, past the first byte, one of 0-9 + - .
GetScheme(rawURL) ==
    LET stops == {k \in 1..Len(rawURL) :
                    LET c == Char(rawURL, k)
                    IN  ~IsLetter(c) /\ ~(k > 1 /\ (IsDigit(c) \/ c \in {"+", "-", "."}))}
    IN  IF stops = {} THEN [scheme |-> "", rest |-> rawURL, err |-> FALSE]
        ELSE LET k == CHOOSE k \in stops : \A m \in stops : k <= m
             IN  IF Char(rawURL, k) # ":"
                   THEN [scheme |-> "", rest |-> rawURL, err |-> FALSE]
                 ELSE IF k = 1
                   THEN [scheme |-> "", rest |-> "", err |-> TRUE]
                 ELSE [scheme |-> SubSeq(rawURL, 1, k - 1),
                       rest |-> SubSeq(rawURL, k + 1, Len(rawURL)), err |-> FALSE]

\* url.validOptionalPort: "" or ":" followed by digits only.
ValidOptionalPort(port) ==
    \/ port = ""
    \/ /\ Head(port) = ":"
       /\ \A k \in 2..Len(port) : IsDigit(Char(port, k))

\* url.parseHost without brackets: the text from the last colon on must be
\* a valid optional port.
HostOK(host) ==
    LET k == LastIndex(host, ":")
    IN  k = 0 \/ ValidOptionalPort(SubSeq(host, k, Len(host)))

\* url.Parse(rawURL), that is url.parse(rawURL, false).
Parse(rawURL) ==
    LET g == GetScheme(rawURL)
        scheme == ToLower(g.scheme)
        q == Index(g.rest, "?")
        \* a single trailing "?" forces an empty query
        force == q > 0 /\ q = Len(g.rest) /\ LastIndex(g.rest, "?") = q
        rest == IF q = 0 THEN g.rest ELSE SubSeq(g.rest, 1, q - 1)
        query == IF q = 0 THEN "" ELSE SubSeq(g.rest, q + 1, Len(g.rest))
        slash == Index(rest, "/")
        segment == IF slash = 0 THEN rest ELSE SubSeq(rest, 1, slash - 1)
        authAll == SubSeq(rest, 3, Len(rest))
        cut == Index(authAll, "/")
        authority == IF cut = 0 THEN authAll ELSE SubSeq(authAll, 1, cut - 1)
        path == IF cut = 0 THEN "" ELSE SubSeq(authAll, cut, Len(authAll))
    IN  IF g.err THEN NilURL
        ELSE IF rawURL = "*" THEN MkURL("", "", "", "*", "", FALSE)
        ELSE IF ~HasPrefix(rest, "/") /\ scheme # ""
          THEN MkURL(scheme, rest, "", "", query, force)
        ELSE IF ~HasPrefix(rest, "/") /\ Contains(segment, ":")
          THEN NilURL
        ELSE IF (scheme # "" \/ ~HasPrefix(rest, "///")) /\ HasPrefix(rest, "//")
          THEN IF HostOK(authority)
                 THEN MkURL(scheme, "", authority, path, query, force)
                 ELSE NilURL
        ELSE MkURL(scheme, "", "", rest, query, force)

\* URL.String().
URLString(v) ==
    LET head == IF v.Scheme # "" THEN v.Scheme \o ":" ELSE ""
        auth == IF v.Scheme # "" \/ v.Host # ""
                  THEN (IF v.Host # "" \/ v.Path # "" THEN "//" ELSE "") \o v.Host
                  ELSE ""
        sep  == IF v.Path # "" /\ Head(v.Path) # "/" /\ v.Host # "" THEN "/" ELSE ""
        colon == Index(v.Path, ":")
        dot  == IF head \o auth \o sep = "" /\ colon > 0
                   /\ Index(SubSeq(v.Path, 1, colon - 1), "/") = 0
                  THEN "./" ELSE ""
        body == IF v.Opaque # "" THEN v.Opaque
                ELSE auth \o sep \o dot \o v.Path
        query == IF v.ForceQuery \/ v.RawQuery # "" THEN "?" \o v.RawQuery ELSE ""
    IN  head \o body \o query

-----------------------------------------------------------------------------
(* The inputs of the model. *)

\* http.StatusOK.
StatusOK == 200

\* All sequences over S of length at most n.
Lists(S, n) == UNION {[1..k -> S] : k \in 0..n}

\* All strings over the characters of alphabet of length at most n.
RECURSIVE Strings(_, _)
Strings(alphabet, n) ==
    IF n = 0 THEN {""}
    ELSE LET shorter == Strings(alphabet, n - 1)
         IN  shorter \cup {s \o c : s \in shorter, c \in alphabet}

\* Names a caller passes: members of the package's lists, and a name that
\* is in neither.
ProfileNames == {pprofProfileTypes[2], "zz"}
MetricNames == {metricTypes[3], "zz"}

PathPrefixes == {"/tmp/dbg-"}

\* Addresses of the batch runs: accepted as they are, accepted after the
\* "http://" retry, and rejected.
BatchAddrs == {"host:1", "http://host:1/", "", "localhost", "file:///tmp/x"}

\* Addresses of the normalization runs.
AddrAlphabet == {"h", "1", ":", "/", "?"}
NormAddrs ==
    Strings(AddrAlphabet, MaxAddrLen)
      \cup {"host:1", "localhost:8080", "127.0.0.1:8080", "localhost", "http://host:1",
            "https://host", "HTTP://host", "file:///tmp/x", "file:x", "file://host/x",
            "host:x", "http://host:x", "//host", "host/debug", "a/b:c", "*"}

\* Durations of the batch runs: 0 and 5 s.
BatchDurations == {Dur(0, 0), Dur(5, 0)}

\* Durations of the normalization runs: 1.5 s and 5 s.
NormDurations == {Dur(1, 500000000), Dur(5, 0), Dur(16777216, 999999999)}

\* math.MaxInt64, the largest time.Duration.
MaxInt64 == <<9, 223372036, 854775807>>

\* Durations of the timeout runs, up to the largest one: a few nanoseconds,
\* whole and fractional seconds, and the two durations on either side of
\* the point where duration + duration/2 + 2 s passes MaxInt64.
TimeDurations ==
    {Dur(0, 0), Dur(0, 1), Dur(0, 3), Dur(1, 500000000), Dur(5, 0), Dur(10, 0),
     Dur(10, 999999999), Dur(3600, 0), <<6, 148914689, 903183871>>,
     <<6, 148914689, 903183872>>, <<9, 223372036, 0>>, MaxInt64}

\* What the server and the network can answer to one GET.  err: client.Get
\* returned an error (no response).  readOK: whether reading the whole body
\* of an error response succeeds.
Response(code, status, xpprof, ctype, body, readOK) ==
    [err |-> FALSE, StatusCode |-> code, Status |-> status, XGoPprof |-> xpprof,
     ContentType |-> ctype, Body |-> body, readOK |-> readOK]

NoResponse ==
    [err |-> TRUE, StatusCode |-> 0, Status |-> "", XGoPprof |-> "",
     ContentType |-> "", Body |-> "", readOK |-> FALSE]

TextPlain == "text/plain; charset=utf-8"
OctetStream == "application/octet-stream"

Responses ==
    {Response(200, "200 OK", "", OctetStream, "", TRUE),
     Response(200, "200 OK", "", OctetStream, "ab", TRUE),
     Response(204, "204 No Content", "", "", "", TRUE),
     Response(500, "500 Internal Server Error", "1", TextPlain, "out of memory", TRUE),
     Response(500, "500 Internal Server Error", "1", TextPlain, "out of memory", FALSE),
     Response(500, "500 Internal Server Error", "", TextPlain, "out of memory", TRUE),
     Response(500, "500 Internal Server Error", "1", OctetStream, "out of memory", TRUE)}

\* File systems the call can start from: the output directory empty, or
\* every possible output file already there.
EmptyFS == [p \in {} |-> ""]

OutputPaths ==
    {pfx \o n \o ".gz" : pfx \in PathPrefixes, n \in ProfileNames \cup MetricNames}

StartFS == {EmptyFS, [p \in OutputPaths |-> "old"]}

-----------------------------------------------------------------------------
(* saveProfiles and saveMetrics: address normalization. *)

\* NeedsRetry as the retry would be if a URL with neither scheme nor host
\* were retried too.
NeedsRetry_alsoWithoutScheme(p) ==
    p.err \/ (p.Host = "" /\ (p.Scheme = "" \/ p.Scheme # "file"))

\* The condition of the retry with "http://" prepended.
NeedsRetry(p) ==
    p.err \/ (p.Host = "" /\ p.Scheme # "" /\ p.Scheme # "file")

\* Rejected without the test of the host.
Rejected_errorOnly(p) == p.err

\* The condition under which the batch logs the address error and returns.
Rejected(p) == p.err \/ p.Host = ""

\* The request URL and the output path of one name.
Source(k, base, name, d) ==
    IF k = "profiles"
      THEN base \o "/debug/pprof/" \o name \o "?duration=" \o SecondsString(d)
      ELSE base \o "/" \o name

SavePath(pfx, name) == pfx \o name \o ".gz"

\* AfterEndpoint with a return in place of the continue.
AfterEndpoint_returnOnError(idx, n, err) ==
    IF idx < n /\ err = ""
      THEN [pc |-> "fetch", i |-> idx + 1]
      ELSE [pc |-> "done", i |-> idx]

\* Where the range loop goes after the endpoint at index idx of n ended
\* with error err ("" for none): the error is logged and the loop continues.
AfterEndpoint(idx, n, err) ==
    IF idx < n THEN [pc |-> "fetch", i |-> idx + 1] ELSE [pc |-> "done", i |-> idx]

\* The entry of a batch call: lines up to the range loop.
Enter(k, a, pfx, d, ns) ==
    /\ pc = "idle"
    /\ kind' = k
    /\ addr' = a
    /\ pathPrefix' = pfx
    /\ duration' = d
    /\ names' = ns
    /\ first' = Parse(a)
    /\ retried' = NeedsRetry(first')
    /\ u' = IF retried' THEN Parse("http://" \o a) ELSE first'
    /\ pc' = IF Rejected(u') \/ ns = <<>> THEN "done" ELSE "fetch"
    /\ i' = 1
    /\ UNCHANGED <<reqs, resp, log, files, oldFiles, bodyOpen, outOpen>>

saveProfiles ==
    /\ pc = "idle"
    /\ \E a \in BatchAddrs, pfx \in PathPrefixes, d \in BatchDurations,
          ns \in Lists(ProfileNames, MaxNames) :
           Enter("profiles", a, pfx, d, ns)

saveMetrics ==
    /\ pc = "idle"
    /\ \E a \in BatchAddrs, pfx \in PathPrefixes, d \in BatchDurations,
          ns \in Lists(MetricNames, MaxNames) :
           Enter("metrics", a, pfx, d, ns)

-----------------------------------------------------------------------------
(* saveDebug, fetchURL, statusCodeError. *)

\* The client timeout: duration + duration/2 + 2*time.Second, in int64.
Timeout(d) == Add64(Add64(d, Half64(d)), Dur(2, 0))

\* IsOK accepting every 2xx status.
IsOK_any2xx(code) == code \in 200..299

\* fetchURL's test of the status code.
IsOK(code) == code = StatusOK

\* StatusCodeError without the test of the content type.
StatusCodeError_anyContentType(r) ==
    IF r.XGoPprof # "" /\ r.readOK
      THEN "server response: " \o r.Status \o " - " \o r.Body
      ELSE "server response: " \o r.Status

\* statusCodeError's message.
StatusCodeError(r) ==
    IF r.XGoPprof # "" /\ Contains(r.ContentType, "text/plain") /\ r.readOK
      THEN "server response: " \o r.Status \o " - " \o r.Body
      ELSE "server response: " \o r.Status

\* CreateFile opening an existing file without truncating it.
CreateFile_noTruncate(fs, path) ==
    [p \in DOMAIN fs \cup {path} |-> IF p \in DOMAIN fs THEN fs[p] ELSE ""]

\* os.Create: the file exists afterwards and is empty.
CreateFile(fs, path) ==
    [p \in DOMAIN fs \cup {path} |-> IF p = path THEN "" ELSE fs[p]]

\* CopyResult removing the file of a failed copy.
CopyResult_removeOnError(fs, path, body, n, ok) ==
    IF ok THEN [fs EXCEPT ![path] = @ \o SubSeq(body, 1, n)]
    ELSE [p \in DOMAIN fs \ {path} |-> fs[p]]

\* io.Copy(out, resp) that moved the first n bytes of body: they are
\* written through the handle, at the end of the file.  Nothing else is
\* done to the file, whether the copy ended with an error (ok false) or not.
CopyResult(fs, path, body, n, ok) ==
    [fs EXCEPT ![path] = @ \o SubSeq(body, 1, n)]

\* The record kept of one finished endpoint: what was asked, what came
\* back, the error saveDebug returned ("" for nil) and the file system as
\* saveDebug left it.
Entry(r, err, fs) ==
    [name |-> names[i], path |-> SavePath(pathPrefix, names[i]), resp |-> r,
     err |-> err, files |-> fs]

\* saveDebug returns err to the loop, which logs it and moves on.
Finish(r, err, fs) ==
    LET nxt == AfterEndpoint(i, Len(names), err)
    IN  /\ log' = Append(log, Entry(r, err, fs))
        /\ pc' = nxt.pc
        /\ i' = nxt.i
        /\ resp' = NoResponse

\* saveDebug up to the return of fetchURL: one GET with the timeout.  On an
\* error or a status other than 200 saveDebug returns; fetchURL has closed
\* the body of a response it rejects.
Fetch ==
    /\ pc = "fetch"
    /\ reqs' = Append(reqs, [name |-> names[i],
                             url |-> Source(kind, URLString(u), names[i], duration),
                             timeout |-> Timeout(duration)])
    /\ \E r \in Responses \cup {NoResponse} :
          IF r.err
            THEN /\ Finish(r, "http fetch: connection refused", files)
                 /\ UNCHANGED bodyOpen
          ELSE IF ~IsOK(r.StatusCode)
            THEN /\ Finish(r, StatusCodeError(r), files)
                 /\ UNCHANGED bodyOpen
          ELSE /\ resp' = r
               /\ bodyOpen' = bodyOpen + 1
               /\ pc' = "create"
               /\ UNCHANGED <<i, log>>
    /\ UNCHANGED <<kind, addr, pathPrefix, duration, names, first, retried, u,
                   files, oldFiles, outOpen>>

\* saveDebug: defer resp.Close() and os.Create(filePath).
Create ==
    /\ pc = "create"
    /\ \E ok \in BOOLEAN :
          IF ok
            THEN /\ files' = CreateFile(files, SavePath(pathPrefix, names[i]))
                 /\ outOpen' = outOpen + 1
                 /\ pc' = "copy"
                 /\ UNCHANGED <<i, log, resp, bodyOpen>>
            ELSE /\ Finish(resp, "error while creating dump file: permission denied",
                           files)
                 /\ bodyOpen' = bodyOpen - 1
                 /\ UNCHANGED <<files, outOpen>>
    /\ UNCHANGED <<kind, addr, pathPrefix, duration, names, first, retried, u,
                   reqs, oldFiles>>

\* saveDebug: io.Copy(out, resp) and the return, which runs the deferred
\* resp.Close().  The copy moves n bytes of the body; it fails after any
\* number of them, or succeeds having moved them all.  out is not closed.
Copy ==
    /\ pc = "copy"
    /\ \E n \in 0..Len(resp.Body), ok \in BOOLEAN :
          /\ ok => n = Len(resp.Body)
          /\ files' = CopyResult(files, SavePath(pathPrefix, names[i]), resp.Body, n, ok)
          /\ Finish(resp, IF ok THEN "" ELSE "unexpected EOF", files')
    /\ bodyOpen' = bodyOpen - 1
    /\ UNCHANGED <<kind, addr, pathPrefix, duration, names, first, retried, u,
                   reqs, oldFiles, outOpen>>

-----------------------------------------------------------------------------
(* The specifications. *)

Init ==
    /\ pc = "idle"
    /\ kind = ""
    /\ addr = ""
    /\ pathPrefix = ""
    /\ duration = Dur(0, 0)
    /\ names = <<>>
    /\ first = NilURL
    /\ retried = FALSE
    /\ u = NilURL
    /\ i = 1
    /\ reqs = <<>>
    /\ resp = NoResponse
    /\ log = <<>>
    /\ files \in StartFS
    /\ oldFiles = files
    /\ bodyOpen = 0
    /\ outOpen = 0

Next == saveProfiles \/ saveMetrics \/ Fetch \/ Create \/ Copy

Spec == Init /\ [][Next]_vars

\* The batch calls over many addresses, one name each.
normProfiles ==
    /\ pc = "idle"
    /\ \E a \in NormAddrs, pfx \in PathPrefixes, d \in NormDurations, n \in ProfileNames :
           Enter("profiles", a, pfx, d, <<n>>)

normMetrics ==
    /\ pc = "idle"
    /\ \E a \in NormAddrs, pfx \in PathPrefixes, d \in NormDurations, n \in MetricNames :
           Enter("metrics", a, pfx, d, <<n>>)

NextNorm == normProfiles \/ normMetrics \/ Fetch \/ Create \/ Copy

SpecNorm == Init /\ [][NextNorm]_vars

\* The batch calls over many durations, one address and one name each.
timeProfiles ==
    /\ pc = "idle"
    /\ \E pfx \in PathPrefixes, d \in TimeDurations, n \in ProfileNames :
           Enter("profiles", "host:1", pfx, d, <<n>>)

timeMetrics ==
    /\ pc = "idle"
    /\ \E pfx \in PathPrefixes, d \in TimeDurations, n \in MetricNames :
           Enter("metrics", "host:1", pfx, d, <<n>>)

NextTime == timeProfiles \/ timeMetrics \/ Fetch \/ Create \/ Copy

SpecTime == Init /\ [][NextTime]_vars

-----------------------------------------------------------------------------
(* Notions the properties are stated with. *)

\* The address was accepted: the batch reached its range loop.
Accepted == pc # "idle" /\ ~u.err /\ u.Host # ""

\* The file system as endpoint k found it.
Before(k) == IF k = 1 THEN oldFiles ELSE log[k - 1].files

IsPrefix(p, t) == Len(p) <= Len(t) /\ SubSeq(t, 1, Len(p)) = p

\* The paths whose existence or content differs between two file systems.
Changed(f, g) ==
    {p \in DOMAIN f \cup DOMAIN g :
        p \notin DOMAIN f \/ p \notin DOMAIN g \/ f[p] # g[p]}

\* x + y on limb triples, without reduction modulo 2^64.
PlainAdd(x, y) ==
    LET c == x[3] + y[3]
        b == x[2] + y[2] + (c \div Second)
    IN  <<x[1] + y[1] + (b \div Second), b % Second, c % Second>>

-----------------------------------------------------------------------------
(* The properties. *)

\* C1: in a batch whose address is accepted, the names are requested one by
\* one in the given order, each exactly once: request k is for names[k], a
\* request is issued only when every earlier endpoint has finished (with or
\* without an error), the call is never stuck before it returns, and when
\* it has returned every name has been requested and has finished, whatever
\* failed on the way.
C1_EveryNameAttemptedInOrder ==
    Accepted =>
        /\ Len(reqs) <= Len(names)
        /\ \A k \in 1..Len(reqs) : reqs[k].name = names[k]
        /\ \A k \in 1..Len(log) : log[k].name = names[k]
        /\ pc = "fetch" => Len(reqs) = Len(log) /\ i = Len(log) + 1
        /\ pc \in {"create", "copy"} => Len(reqs) = Len(log) + 1 /\ i = Len(reqs)
        /\ pc = "done" => Len(reqs) = Len(names) /\ Len(log) = Len(names)
        /\ pc # "done" => ENABLED Next

\* A batch of two names has returned; the first name failed and the second
\* was saved.
C1_Witness ==
    /\ Accepted
    /\ pc = "done"
    /\ Len(names) = 2
    /\ log[1].err # ""
    /\ log[2].err = ""

\* C2: when the address does not parse even after the retry, or the URL has
\* no host, the call has returned without a request, without a finished
\* endpoint, with the file system as it found it and no handle open.
C2_RejectedAddressDoesNothing ==
    (pc # "idle" /\ (u.err \/ u.Host = "")) =>
        /\ pc = "done"
        /\ reqs = <<>>
        /\ log = <<>>
        /\ files = oldFiles
        /\ bodyOpen = 0
        /\ outOpen = 0

\* A call with a name to fetch whose address failed to parse after the retry.
C2_Witness ==
    /\ pc = "done"
    /\ names # <<>>
    /\ oldFiles # EmptyFS
    /\ retried
    /\ u.err

C4_BodyInMessageWheneverMarked ==
    \A k \in 1..Len(log) :
        LET e == log[k]
            r == e.resp
        IN  (~r.err /\ r.StatusCode # 200) =>
                /\ e.files = Before(k)
                /\ e.err = IF r.XGoPprof # "" /\ Contains(r.ContentType, "text/plain")
                             THEN "server response: " \o r.Status \o " - " \o r.Body
                             ELSE "server response: " \o r.Status

\* C4 amended: as C4, but the message holds the body only if, besides, the
\* body was read without an error; if reading it fails the message is the
\* status line alone.
C4_StatusErrorMessage ==
    \A k \in 1..Len(log) :
        LET e == log[k]
            r == e.resp
        IN  (~r.err /\ r.StatusCode # 200) =>
                /\ e.err # ""
                /\ e.files = Before(k)
                /\ e.err = IF /\ r.XGoPprof # ""
                              /\ Contains(r.ContentType, "text/plain")
                              /\ r.readOK
                             THEN "server response: " \o r.Status \o " - " \o r.Body
                             ELSE "server response: " \o r.Status

\* Of two endpoints the first got a marked plain-text 500: its message holds
\* the body and it has no file; the second was still requested, and saved.
C4_Witness ==
    /\ pc = "done"
    /\ Len(log) = 2
    /\ oldFiles = EmptyFS
    /\ names[1] # names[2]
    /\ log[1].resp.StatusCode = 500
    /\ log[1].err = "server response: 500 Internal Server Error - out of memory"
    /\ log[1].path \notin DOMAIN files
    /\ log[2].err = ""
    /\ log[2].path \in DOMAIN files

\* C5: when the batch has returned and every endpoint was saved without an
\* error, the files that exist are those that existed plus <prefix><name>.gz
\* for every name, every other file is as it was, and each output file holds
\* exactly the body of the last response served for its name (nothing of a
\* previous content, nothing added or removed).
C5_FilesHoldTheBodies ==
    (Accepted /\ pc = "done" /\ \A k \in 1..Len(log) : log[k].err = "") =>
        LET paths == {pathPrefix \o names[k] \o ".gz" : k \in 1..Len(names)}
        IN  /\ DOMAIN files = DOMAIN oldFiles \cup paths
            /\ \A p \in DOMAIN files \ paths : files[p] = oldFiles[p]
            /\ \A k \in 1..Len(names) :
                  LET same == {m \in 1..Len(names) : names[m] = names[k]}
                      last == CHOOSE m \in same : \A n \in same : n <= m
                  IN  files[pathPrefix \o names[k] \o ".gz"] = log[last].resp.Body

\* Two different names were saved over files that existed, one of them with
\* a non-empty body.
C5_Witness ==
    /\ Accepted
    /\ pc = "done"
    /\ Len(names) = 2
    /\ names[1] # names[2]
    /\ oldFiles # EmptyFS
    /\ log[1].err = "" /\ log[2].err = ""
    /\ log[1].resp.Body = "ab"
    /\ files[log[1].path] = "ab"

\* C6: no response body and no output file handle is open when an endpoint's
\* fetch starts or when the batch has returned.
C6_HandlesReleased ==
    pc \in {"fetch", "done"} => bodyOpen = 0 /\ outOpen = 0

\* C7 as stated: a response ends the endpoint with a status error exactly
\* when its status is outside 200-299.
C7_StatusErrorIffNot2xx ==
    \A k \in 1..Len(log) :
        LET e == log[k]
            r == e.resp
        IN  ~r.err =>
                (HasPrefix(e.err, "server response: ") <=> r.StatusCode \notin 200..299)

\* C7 amended: a response ends the endpoint with a status error exactly when
\* its status is not 200; with status 200 the file is created and the body
\* copied unless the creation fails, and a request in flight past the fetch
\* has a response with status 200.
C7_StatusErrorIffNot200 ==
    /\ \A k \in 1..Len(log) :
          LET e == log[k]
              r == e.resp
          IN  ~r.err =>
                  /\ HasPrefix(e.err, "server response: ") <=> r.StatusCode # 200
                  /\ (r.StatusCode = 200 /\ e.err = "") =>
                        /\ e.path \in DOMAIN e.files
                        /\ e.files[e.path] = r.Body
    /\ pc \in {"create", "copy"} => ~resp.err /\ resp.StatusCode = 200

\* A 204 response ended its endpoint with a status error and without a file.
C7_Witness ==
    \E k \in 1..Len(log) :
        /\ log[k].resp.StatusCode = 204
        /\ log[k].err = "server response: 204 No Content"
        /\ log[k].files = Before(k)

\* The requests and files of a batch, where secs is the text that stands for
\* the duration in the URL of a profile.
C8_Requests(secs) ==
    Accepted =>
        /\ \A k \in 1..Len(reqs) :
              /\ reqs[k].url =
                    IF kind = "profiles"
                      THEN URLString(u) \o "/debug/pprof/" \o names[k]
                             \o "?duration=" \o secs
                      ELSE URLString(u) \o "/" \o names[k]
              /\ (addr = "host:1" /\ kind = "metrics" /\ names[k] = "health") =>
                    reqs[k].url = "http://host:1/health"
              /\ (addr = "host:1" /\ kind = "profiles" /\ names[k] = "heap"
                    /\ duration = <<0, 5, 0>>) =>
                    reqs[k].url = "http://host:1/debug/pprof/heap?duration=5"
        /\ \A k \in 1..Len(log) :
              /\ Changed(Before(k), log[k].files) \subseteq {pathPrefix \o names[k] \o ".gz"}
              /\ log[k].err = "" => (pathPrefix \o names[k] \o ".gz") \in DOMAIN log[k].files

\* C8: request k of a profile batch is for <base>/debug/pprof/<name>?duration=
\* <the duration truncated to whole seconds>, also for 16777216.999999999 s;
\* request k of a metric batch is for <base>/<name>, where base is the text
\* of the normalized URL; an endpoint changes no file but <prefix><name>.gz.
C8_DurationAlwaysTruncated ==
    C8_Requests(CASE duration = <<0, 1, 500000000>> -> "1"
                  [] duration = <<0, 5, 0>> -> "5"
                  [] duration = <<0, 16777216, 999999999>> -> "16777216")

\* What the code does where C8 fails: the query is int(duration.Seconds()),
\* the whole seconds below 2^24 s and 16777217 for 16777216.999999999 s;
\* everything else of C8 holds.
C8_RequestURLAndPath ==
    C8_Requests(CASE duration = <<0, 1, 500000000>> -> "1"
                  [] duration = <<0, 5, 0>> -> "5"
                  [] duration = <<0, 16777216, 999999999>> -> "16777217")

\* C9: for every duration d >= 0 the timeout of a request is d + d/2 + 2 s
\* and is greater than d.
C9_TimeoutAlwaysAboveDuration ==
    \A k \in 1..Len(reqs) :
        LET h == Half64(duration)
        IN  /\ reqs[k].timeout = PlainAdd(PlainAdd(duration, h), <<0, 2, 0>>)
            /\ Less64(duration, reqs[k].timeout)

\* What the code does where C9 fails: h being d/2 rounded down, the timeout
\* of a request is
\* d + h + 2 s and greater than d as long as that sum is at most
\* math.MaxInt64 (d up to 6148914689903183871 ns); for a greater d the
\* int64 sum wraps around and the timeout is negative.  For 10 s it is 17 s
\* and for 0 it is 2 s, for profiles and metrics alike.
C9_TimeoutUnlessOverflow ==
    \A k \in 1..Len(reqs) :
        LET d == duration
            t == reqs[k].timeout
            h == Half64(d)
            exact == PlainAdd(PlainAdd(d, h), <<0, 2, 0>>)
        IN  /\ PlainAdd(h, h) = d \/ PlainAdd(PlainAdd(h, h), <<0, 0, 1>>) = d
            /\ LessU(exact, <<9, 223372036, 854775808>>) =>
                  t = exact /\ LessU(d, t) /\ Less64(d, t)
            /\ ~LessU(exact, <<9, 223372036, 854775808>>) =>
                  ~LessU(t, <<9, 223372036, 854775808>>) /\ Less64(t, d)
            /\ d = <<0, 10, 0>> => t = <<0, 17, 0>>
            /\ d = <<0, 0, 0>> => t = <<0, 2, 0>>
            /\ d = <<0, 0, 3>> => t = <<0, 2, 4>>

\* C10: only an endpoint whose GET returned status 200 changes a file; no
\* file that existed is removed; while the body is copied the response has
\* status 200; and when the copy fails the endpoint ends with an error while
\* its file exists and holds a prefix of the body, nothing of what the file
\* held before.
C10_FileOfAFailedCopy ==
    /\ \A k \in 1..Len(log) :
          LET e == log[k]
              r == e.resp
          IN  /\ e.files # Before(k) => (~r.err /\ r.StatusCode = 200)
              /\ DOMAIN Before(k) \subseteq DOMAIN e.files
              /\ (~r.err /\ r.StatusCode = 200 /\ e.err = "unexpected EOF") =>
                    /\ e.path \in DOMAIN e.files
                    /\ IsPrefix(e.files[e.path], r.Body)
    /\ DOMAIN oldFiles \subseteq DOMAIN files
    /\ pc = "create" => files = Before(Len(log) + 1)
    /\ pc = "copy" =>
          /\ ~resp.err /\ resp.StatusCode = 200
          /\ files[SavePath(pathPrefix, names[i])] = ""

\* An endpoint failed in the copy after one of two bytes: its file, which
\* held other content before, now holds that one byte.
C10_Witness ==
    \E k \in 1..Len(log) :
        /\ log[k].err = "unexpected EOF"
        /\ log[k].resp.Body = "ab"
        /\ oldFiles # EmptyFS
        /\ Before(k)[log[k].path] = "old"
        /\ log[k].files[log[k].path] = "a"

=============================================================================
